---- MODULE Spec2Model ----
(***************************************************************************)
(* Angry Cat: the cat behaviour state machine (cat.js), the per-frame      *)
(* encounter loop, lives, win / game-over and reset (main.js), the         *)
(* jump-scare sequencer and its timers (jumpScare.js), the pause menu and  *)
(* the launcher.                                                           *)
(*                                                                         *)
(* Units.  Lengths are integers in hundredths of a world unit, times in    *)
(* tenths of a second (ticks), stamina in 1/120 of a full bar, the         *)
(* aggression and sprint factors in tenths.  Only the x and z coordinates  *)
(* are kept: the room classification, the zone tests and the stalking      *)
(* movement all ignore y.  Stamina is kept as one of three classes: empty, *)
(* partly filled, full; where the class alone does not decide the result   *)
(* of the arithmetic, every result the arithmetic can give is allowed.     *)
(* Requesting the pointer lock and acquiring it are one step.              *)
(***************************************************************************)
EXTENDS Integers, Sequences, FiniteSets, TLC

\* ------------------------------------------------------------------ bounds
\* The longest frame time (clock.getDelta()) a frame may observe, in ticks.
MaxDelta == 25
\* The frame times a frame may observe: a short one and a long one.
Deltas == {4, MaxDelta}

\* the number of short frames explored during one stalk
MaxStalkFrames == 1

\* ------------------------------------------------------- program constants
MAX_LIVES == 3
CAT_SPEED == 2
STALK_DURATION == 50
POUNCE_DISTANCE == 200
NORMALIZE_EPS == 1
SPRINT_FACTOR == 15
WALK_FACTOR == 10
WALK_SPEED == 4
SPRINT_SPEED == 6
FULL_STAMINA == 120
STAMINA_DRAIN == 4
STAMINA_RECHARGE == 3
HIT_DELAY == 8
MESSAGE_DELAY == 6
DEATH_DELAY == 25
HIT_SHAKE == 4
DEATH_SHAKE == 5
NO_ROOM == 0 - 1
LAST_ROOM == 3

Pt(x, z) == [x |-> x, z |-> z]

ROOM_AGGRESSION == [i \in 0..LAST_ROOM |->
    CASE i = 0 -> 10 [] i = 1 -> 13 [] i = 2 -> 16 [] OTHER -> 20]

ROOM_Z_BOUNDS == [i \in 0..LAST_ROOM |->
    CASE i = 0 -> [minZ |-> 0 - 300,  maxZ |-> 300]
      [] i = 1 -> [minZ |-> 0 - 1100, maxZ |-> 0 - 300]
      [] i = 2 -> [minZ |-> 0 - 1700, maxZ |-> 0 - 1100]
      [] OTHER -> [minZ |-> 0 - 2300, maxZ |-> 0 - 1700]]

createKitchen ==
    [catHidingSpots |-> <<Pt(250, 250), Pt(0, 0)>>,
     triggerZone |-> [min |-> Pt(0 - 200, 0 - 150), max |-> Pt(200, 150)],
     spawnPoint |-> Pt(0, 200),
     hasExit |-> FALSE,
     exitZone |-> [min |-> Pt(0, 0), max |-> Pt(0, 0)]]

createHallway ==
    [catHidingSpots |-> <<Pt(0, 0 - 1020)>>,
     triggerZone |-> [min |-> Pt(0 - 150, 0 - 900), max |-> Pt(150, 0 - 500)],
     spawnPoint |-> Pt(0, 0 - 400),
     hasExit |-> FALSE,
     exitZone |-> [min |-> Pt(0, 0), max |-> Pt(0, 0)]]

createLivingRoom ==
    [catHidingSpots |-> <<Pt(0 - 250, 0 - 1520), Pt(360, 0 - 1350)>>,
     triggerZone |-> [min |-> Pt(0 - 200, 0 - 1550), max |-> Pt(200, 0 - 1250)],
     spawnPoint |-> Pt(0, 0 - 1300),
     hasExit |-> FALSE,
     exitZone |-> [min |-> Pt(0, 0), max |-> Pt(0, 0)]]

createBedroom ==
    [catHidingSpots |-> <<Pt(0 - 150, 0 - 2050), Pt(350, 0 - 2180)>>,
     triggerZone |-> [min |-> Pt(0 - 200, 0 - 2150), max |-> Pt(200, 0 - 1850)],
     spawnPoint |-> Pt(0, 0 - 1900),
     hasExit |-> TRUE,
     exitZone |-> [min |-> Pt(0 - 80, 0 - 2350), max |-> Pt(80, 0 - 2250)]]

rooms == [i \in 0..LAST_ROOM |->
    CASE i = 0 -> createKitchen
      [] i = 1 -> createHallway
      [] i = 2 -> createLivingRoom
      [] OTHER -> createBedroom]

\* ------------------------------------------------------------ room / zones
RECURSIVE RoomScan(_, _)
RoomScan(pz, i) ==
    IF i > LAST_ROOM THEN NO_ROOM
    ELSE IF pz >= ROOM_Z_BOUNDS[i].minZ /\ pz <= ROOM_Z_BOUNDS[i].maxZ THEN i
    ELSE RoomScan(pz, i + 1)

\* the scan started at the second room
roomIndexFromHallway(position) == RoomScan(position.z, 1)

getRoomIndexForPosition(position) == RoomScan(position.z, 0)

isInsideTriggerZone(position, zone) ==
    /\ position.x >= zone.min.x /\ position.x <= zone.max.x
    /\ position.z >= zone.min.z /\ position.z <= zone.max.z

\* --------------------------------------------------------------- arithmetic
Abs(n) == IF n < 0 THEN 0 - n ELSE n
Sq(n) == n * n
Dist2(a, b) == Sq(a.x - b.x) + Sq(a.z - b.z)

RECURSIVE IsqrtIn(_, _, _)
IsqrtIn(n, lo, hi) ==
    IF lo >= hi THEN lo
    ELSE LET mid == (lo + hi + 1) \div 2
         IN  IF mid * mid <= n THEN IsqrtIn(n, mid, hi) ELSE IsqrtIn(n, lo, mid - 1)

\* floor of the square root
Isqrt(n) == IsqrtIn(n, 0, 46340)

\* n / m rounded to the nearest integer (m > 0)
RoundDiv(n, m) == IF n >= 0 THEN (2 * n + m) \div (2 * m)
                  ELSE 0 - ((2 * (0 - n) + m) \div (2 * m))


\* ------------------------------------------------------------------ cat.js
LURKING == "lurking"
STALKING == "stalking"
POUNCING == "pouncing"

\* new Cat(scene) followed by load(): the model exists and is hidden.
CatInit ==
    [state |-> LURKING, position |-> Pt(0, 0), stalkTimer |-> 0,
     pounceFired |-> FALSE, visible |-> FALSE, modelVisible |-> FALSE,
     aggressionMultiplier |-> 10]

\* setupForRoom that only places the cat and sets the aggression
setupKeepsState(c, hidingSpots, aggressionMultiplier, k) ==
    [c EXCEPT !.aggressionMultiplier = aggressionMultiplier,
              !.position = IF Len(hidingSpots) > 0 THEN hidingSpots[k] ELSE @]

\* k is the index Math.floor(Math.random() * hidingSpots.length) + 1
setupForRoom(c, hidingSpots, aggressionMultiplier, k) ==
    [c EXCEPT !.state = LURKING,
              !.pounceFired = FALSE,
              !.stalkTimer = 0,
              !.aggressionMultiplier = aggressionMultiplier,
              !.position = IF Len(hidingSpots) > 0 THEN hidingSpots[k] ELSE @,
              !.modelVisible = IF Len(hidingSpots) > 0 THEN FALSE ELSE @,
              !.visible = FALSE]

\* activate() without the Lurking guard
activateAlways(c) ==
    [c EXCEPT !.state = STALKING, !.stalkTimer = 0, !.pounceFired = FALSE,
              !.modelVisible = TRUE, !.visible = TRUE]

\* activate(): if (this.state !== CAT_STATE.LURKING) return;
activate(c) ==
    IF c.state # LURKING THEN c
    ELSE [c EXCEPT !.state = STALKING, !.stalkTimer = 0, !.pounceFired = FALSE,
                   !.modelVisible = TRUE, !.visible = TRUE]

\* moveSpeed without the sprint factor
moveSpeedNoSprint(c, delta, playerIsSprinting) ==
    (CAT_SPEED * c.aggressionMultiplier * WALK_FACTOR * delta) \div 10

\* this.speed * this.aggressionMultiplier * sprintFactor * delta, in hundredths
moveSpeed(c, delta, playerIsSprinting) ==
    (CAT_SPEED * c.aggressionMultiplier
        * (IF playerIsSprinting THEN SPRINT_FACTOR ELSE WALK_FACTOR) * delta) \div 10

\* position.addScaledVector(direction, moveSpeed): the direction is normalised
\* only when the distance exceeds 0.01; the result is rounded to the grid.
stalkStep(c, delta, playerPosition, playerIsSprinting) ==
    LET dx == playerPosition.x - c.position.x
        dz == playerPosition.z - c.position.z
        d2 == dx * dx + dz * dz
        mv == moveSpeed(c, delta, playerIsSprinting)
    IN  IF d2 > NORMALIZE_EPS * NORMALIZE_EPS
        THEN LET len == Isqrt(4 * d2)
             IN  Pt(c.position.x + RoundDiv(dx * mv * 2, len),
                    c.position.z + RoundDiv(dz * mv * 2, len))
        ELSE Pt(c.position.x + RoundDiv(dx * mv, 100),
                c.position.z + RoundDiv(dz * mv, 100))

\* the pounce condition without the timeout
pounceByDistanceOnly(distance2, stalkTimer) ==
    distance2 < POUNCE_DISTANCE * POUNCE_DISTANCE

\* the pounce condition with the timeout reached rather than exceeded
pounceAtStalkDuration(distance2, stalkTimer) ==
    distance2 < POUNCE_DISTANCE * POUNCE_DISTANCE \/ stalkTimer >= STALK_DURATION

\* distance < 2.0 || this.stalkTimer > this.stalkDuration
pounceCondition(distance2, stalkTimer) ==
    distance2 < POUNCE_DISTANCE * POUNCE_DISTANCE \/ stalkTimer > STALK_DURATION

\* the stalk timer left as it is
stalkTimerHeld(stalkTimer, delta) == stalkTimer

\* this.stalkTimer += delta
stalkTimerAfter(stalkTimer, delta) == stalkTimer + delta

updateStalking(c, delta, playerPosition, playerIsSprinting) ==
    LET distance2 == Dist2(playerPosition, c.position)
        timer == stalkTimerAfter(c.stalkTimer, delta)
    IN  [c EXCEPT !.modelVisible = TRUE,
                  !.position = stalkStep(c, delta, playerPosition, playerIsSprinting),
                  !.stalkTimer = timer,
                  !.state = IF pounceCondition(distance2, timer) THEN POUNCING ELSE @]

\* _updatePouncing without the _pounceFired guard
pounceFiresEveryUpdate(c) == c.state = POUNCING

\* whether _updatePouncing calls this.onJumpScare()
pounceFires(c) == c.state = POUNCING /\ ~c.pounceFired

updatePouncing(c) == IF ~c.pounceFired THEN [c EXCEPT !.pounceFired = TRUE] ELSE c

\* Cat.update without the STALKING case of the switch
catUpdateNoStalk(c, delta, playerPosition, playerIsSprinting) ==
    IF c.state = POUNCING THEN updatePouncing(c) ELSE c

\* Cat.update: the new cat; whether onJumpScare was called is pounceFires(c).
catUpdate(c, delta, playerPosition, playerIsSprinting) ==
    CASE c.state = STALKING -> updateStalking(c, delta, playerPosition, playerIsSprinting)
      [] c.state = POUNCING -> updatePouncing(c)
      [] OTHER -> c

\* reset() without the stalkTimer assignment
catResetKeepsTimer(c) ==
    [c EXCEPT !.state = LURKING, !.pounceFired = FALSE,
              !.visible = FALSE, !.modelVisible = FALSE]

\* reset()
catReset(c) ==
    [c EXCEPT !.state = LURKING, !.stalkTimer = 0, !.pounceFired = FALSE,
              !.visible = FALSE, !.modelVisible = FALSE]


\* --------------------------------------------------------------- player.js
\* Places the player may stand on (x, z): the spawn points, the room edges,
\* the trigger zones, the exit zone inside and outside the bedroom range.
PlayerPoints ==
    {Pt(0, 200), Pt(0, 100), Pt(0, 0 - 400), Pt(0, 0 - 520), Pt(0, 0 - 1550),
     Pt(0, 0 - 1700), Pt(0, 0 - 1940), Pt(0, 0 - 2260), Pt(0, 0 - 2320)}

\* new Player(...): stamina 1, no pointer lock, not in mobile mode;
\* the camera starts on the kitchen spawn point.
PlayerInit ==
    [position |-> Pt(0, 200), stamina |-> FULL_STAMINA,
     isLocked |-> FALSE, mobileMode |-> FALSE]

\* get isSprinting(): keys.sprint && stamina > 0 && isMoving
isSprinting(p, moving, sprintKey) == sprintKey /\ p.stamina > 0 /\ moving

\* the class of the stamina values strictly between empty and full
PARTIAL_STAMINA == FULL_STAMINA \div 2

\* the stamina part of Player.update: stamina -= delta / 3 clamped at 0 when
\* sprinting, stamina += delta / 4 clamped at 1 otherwise; the set of classes
\* the result can be in
staminaAfter(stamina, sprinting, delta) ==
    IF sprinting
    THEN (IF stamina = FULL_STAMINA
          THEN (IF STAMINA_DRAIN * delta >= FULL_STAMINA THEN {0} ELSE {PARTIAL_STAMINA})
          ELSE {0} \cup (IF STAMINA_DRAIN * delta < FULL_STAMINA
                         THEN {PARTIAL_STAMINA} ELSE {}))
    ELSE (IF stamina = FULL_STAMINA THEN {FULL_STAMINA}
          ELSE IF stamina = 0
          THEN (IF STAMINA_RECHARGE * delta >= FULL_STAMINA THEN {FULL_STAMINA}
                ELSE {PARTIAL_STAMINA})
          ELSE {FULL_STAMINA} \cup (IF STAMINA_RECHARGE * delta < FULL_STAMINA
                                    THEN {PARTIAL_STAMINA} ELSE {}))

\* the distance covered in one Player.update is at most speed * delta
canReach(from, to, sprinting, delta) ==
    Dist2(from, to) <= Sq((IF sprinting THEN SPRINT_SPEED ELSE WALK_SPEED) * delta * 10)

\* Player.update: if (!this.controls.isLocked && !this.mobileMode) return;
playerFrozen(p) == ~p.isLocked /\ ~p.mobileMode

\* Player.update(delta, collidables); target is where the movement ends,
\* stamina the class the new stamina is in
playerUpdate(p, moving, target, stamina) ==
    IF playerFrozen(p) THEN p
    ELSE [p EXCEPT !.stamina = stamina,
                   !.position = IF moving THEN target ELSE @]

\* ------------------------------------------------------------ jumpScare.js
NO_TIMER == 0 - 1

\* new JumpScare(camera); msgTimer and doneTimer are the ticks left until the
\* pending setTimeout callbacks are due (NO_TIMER: none pending); kind is the
\* sequence that is running ("none", "hit", "full"); shake is shakeDuration
\* as far as update() reads it: the ticks of camera shake left, 0 when it is
\* over (shakeIntensity is assigned together with it)
JumpScareInit ==
    [isActive |-> FALSE, overlay |-> "none", kind |-> "none",
     msgTimer |-> NO_TIMER, doneTimer |-> NO_TIMER, shake |-> 0]

\* triggerHit() without the isActive guard
triggerHitAlways(js) ==
    [js EXCEPT !.isActive = TRUE, !.overlay = "flash", !.kind = "hit",
               !.shake = HIT_SHAKE, !.doneTimer = HIT_DELAY]

\* triggerHit(): the short sequence, no death message
triggerHit(js) ==
    IF js.isActive THEN js
    ELSE [js EXCEPT !.isActive = TRUE, !.overlay = "flash", !.kind = "hit",
                    !.shake = HIT_SHAKE, !.doneTimer = HIT_DELAY]

\* trigger() without the 600 ms callback
triggerNoMessage(js) ==
    IF js.isActive THEN js
    ELSE [js EXCEPT !.isActive = TRUE, !.overlay = "flash", !.kind = "full",
                    !.shake = DEATH_SHAKE, !.doneTimer = DEATH_DELAY]

\* trigger(): the full sequence, flash then death message
trigger(js) ==
    IF js.isActive THEN js
    ELSE [js EXCEPT !.isActive = TRUE, !.overlay = "flash", !.kind = "full",
                    !.shake = DEATH_SHAKE,
                    !.msgTimer = MESSAGE_DELAY, !.doneTimer = DEATH_DELAY]

\* JumpScare.update(delta): if (this.shakeDuration > 0) this.shakeDuration -= delta
jumpScareUpdate(js, delta) ==
    [js EXCEPT !.shake = IF @ > delta THEN @ - delta ELSE 0]

\* d ticks pass: a pending callback that is due runs before a later frame
timersAllow(js, d) ==
    /\ js.msgTimer # NO_TIMER => d <= js.msgTimer
    /\ js.doneTimer # NO_TIMER => d <= js.doneTimer

timersAfter(js, d) ==
    [js EXCEPT !.msgTimer = IF @ = NO_TIMER THEN @ ELSE @ - d,
               !.doneTimer = IF @ = NO_TIMER THEN @ ELSE @ - d]


\* ----------------------------------------------------------------- main.js
VARIABLES
    isTouchDevice,       \* touchControls.js: isTouchDevice (fixed for one page load)
    gameRunning,         \* main.js: let gameRunning
    currentRoomIndex,    \* main.js: let currentRoomIndex
    catActivatedInRoom,  \* main.js: let catActivatedInRoom
    lives,               \* main.js: let lives
    animateStarted,      \* main.js: let animateStarted
    cat,                 \* the Cat instance
    player,              \* the Player instance
    jumpScare,           \* the JumpScare instance and its pending timers
    ui,                  \* launcher, win / game-over / pause overlays, touch controls
    ev,                  \* history: the handler that ran last
    sess,                \* history: what has happened since the last resetGame
    fires,               \* history: onJumpScare calls since the cat last pounced or was set up
    stalkFrames,         \* history: the frames counted against MaxStalkFrames
    scareRoom,           \* history: currentRoomIndex when the running sequence was triggered
    fx                   \* history: the HUD and sound calls of the handler that ran last

vars == <<isTouchDevice, gameRunning, currentRoomIndex, catActivatedInRoom, lives,
          animateStarted, cat, player, jumpScare, ui, ev, sess, fires, stalkFrames,
          scareRoom, fx>>

\* no call of hud.showRoomName, no soundManager.play('door-creak')
NoFx == [roomName |-> NO_ROOM, doorCreak |-> FALSE]

UiInit ==
    [launcher |-> TRUE, startPending |-> FALSE, win |-> FALSE, gameOver |-> FALSE,
     pause |-> FALSE, touchShown |-> FALSE]

SessInit == [lostAll |-> FALSE, over |-> FALSE, won |-> FALSE]

Init ==
    /\ isTouchDevice \in BOOLEAN
    /\ gameRunning = FALSE
    /\ currentRoomIndex = NO_ROOM
    /\ catActivatedInRoom = FALSE
    /\ lives = MAX_LIVES
    /\ animateStarted = FALSE
    /\ cat = CatInit
    /\ player = PlayerInit
    /\ jumpScare = JumpScareInit
    /\ ui = UiInit
    /\ ev = "init"
    /\ sess = SessInit
    /\ fires = 0
    /\ stalkFrames = 0
    /\ scareRoom = NO_ROOM
    /\ fx = NoFx

\* animate() without the gameRunning gate
frameRunsAlways(running) == TRUE

\* animate(): if (!gameRunning) return;
frameRuns(running) == running

\* cat.onJumpScare without the decrement
livesKept(l) == l

\* cat.onJumpScare: lives--
livesAfterScare(l) == l - 1

\* cat.onJumpScare: if (lives <= 0) jumpScare.trigger() else jumpScare.triggerHit()
scareSequence(js, l) == IF l <= 0 THEN trigger(js) ELSE triggerHit(js)

\* jumpScare.onRespawn: if (lives <= 0) { triggerGameOver(); return; }
respawnIsGameOver(l) == l <= 0

\* animate(): roomIndex === 3 && bedroom.exitZone && isInsideTriggerZone(...)
winCondition(roomIndex, position) ==
    /\ roomIndex = LAST_ROOM
    /\ rooms[LAST_ROOM].hasExit
    /\ isInsideTriggerZone(position, rooms[LAST_ROOM].exitZone)

\* the door creak played on the first classification too
playsDoorCreakAlways(current) == TRUE

\* animate(), room entered: if (currentRoomIndex !== -1 && soundManager);
\* startGame has created the soundManager before the first frame
playsDoorCreak(current) == current # NO_ROOM

\* animate(): roomIndex !== -1 && roomIndex !== currentRoomIndex
roomEntered(roomIndex, current) == roomIndex # NO_ROOM /\ roomIndex # current

\* the trigger-zone check without the armed flag
triggerIgnoresArmed(roomIndex, armed, position) ==
    /\ roomIndex # NO_ROOM
    /\ isInsideTriggerZone(position, rooms[roomIndex].triggerZone)

\* animate(): roomIndex !== -1 && !catActivatedInRoom && isInsideTriggerZone(...)
triggerCondition(roomIndex, armed, position) ==
    /\ roomIndex # NO_ROOM
    /\ ~armed
    /\ isInsideTriggerZone(position, rooms[roomIndex].triggerZone)

\* the overlays and the pointer lock after triggerWin / triggerGameOver
uiAfterEnd(u, screen) ==
    [u EXCEPT !.pause = FALSE, !.touchShown = FALSE,
              !.win = IF screen = "win" THEN TRUE ELSE @,
              !.gameOver = IF screen = "gameOver" THEN TRUE ELSE @]

\* what the keys can be: hiding the touch controls resets joystick and sprint
keysAllowed(moving, sprintKey) ==
    (isTouchDevice /\ ~ui.touchShown) => (~moving /\ ~sprintKey)

\* One frame of animate() while the game is running.
\* d: clock.getDelta(); moving, sprintKey: the keys held; target: where the
\* player's movement ends; st: the class of the new stamina; k: the hiding
\* spot Math.random() picks.  The frames explored: a long frame (MaxDelta) in
\* which the cat stalks has the player standing still, or leaving the rooms
\* after the first long frame of the stalk, and a stalk holds at most
\* MaxStalkFrames short frames.
Frame(d, moving, sprintKey, target) ==
    /\ animateStarted
    /\ frameRuns(gameRunning)
    /\ timersAllow(jumpScare, d)
    /\ keysAllowed(moving, sprintKey)
    /\ (~moving \/ playerFrozen(player)) <=> target = player.position
    /\ sprintKey => ~canReach(player.position, target, FALSE, d)
    /\ (cat.state = STALKING /\ d # MaxDelta) => stalkFrames < MaxStalkFrames
    /\ canReach(player.position, target, isSprinting(player, moving, sprintKey), d)
    /\ \E st \in (IF playerFrozen(player) THEN {player.stamina}
                  ELSE staminaAfter(player.stamina,
                                    isSprinting(player, moving, sprintKey), d)) :
       LET p1 == playerUpdate(player, moving, target, st)
           sprint == isSprinting(p1, moving, sprintKey)
           roomIndex == getRoomIndexForPosition(p1.position)
           entered == roomEntered(roomIndex, currentRoomIndex)
       IN  \E k \in 1..(IF entered THEN Len(rooms[roomIndex].catHidingSpots) ELSE 1) :
       LET cat1 == IF entered
                   THEN setupForRoom(cat, rooms[roomIndex].catHidingSpots,
                                     ROOM_AGGRESSION[roomIndex], k)
                   ELSE cat
           armed1 == IF entered THEN FALSE ELSE catActivatedInRoom
           won == winCondition(roomIndex, p1.position)
           trig == ~won /\ triggerCondition(roomIndex, armed1, p1.position)
           cat2 == IF trig THEN activate(cat1) ELSE cat1
           fired == ~won /\ pounceFires(cat2)
           cat3 == IF won THEN cat1 ELSE catUpdate(cat2, d, p1.position, sprint)
           pounced == cat2.state = STALKING /\ cat3.state = POUNCING
           lives1 == IF fired THEN livesAfterScare(lives) ELSE lives
           js0 == timersAfter(jumpScare, d)
       IN  /\ (d = MaxDelta /\ cat2.state = STALKING)
                 => (~moving \/ (roomIndex = NO_ROOM /\ cat.stalkTimer = MaxDelta))
           /\ player' = [p1 EXCEPT !.isLocked = IF won THEN FALSE ELSE @]
           /\ currentRoomIndex' = IF entered THEN roomIndex ELSE currentRoomIndex
           /\ catActivatedInRoom' = (armed1 \/ trig)
           /\ cat' = cat3
           /\ lives' = lives1
           /\ jumpScare' = IF won THEN js0
                            ELSE jumpScareUpdate(IF fired THEN scareSequence(js0, lives1)
                                                 ELSE js0, d)
           /\ gameRunning' = IF won THEN FALSE ELSE gameRunning
           /\ ui' = IF won THEN uiAfterEnd(ui, "win") ELSE ui
           /\ fires' = IF pounced \/ entered THEN 0
                        ELSE IF fired THEN fires + 1 ELSE fires
           /\ stalkFrames' = IF entered THEN 0
                              ELSE IF cat.state = STALKING /\ d # MaxDelta
                              THEN stalkFrames + 1 ELSE stalkFrames
           /\ sess' = [sess EXCEPT !.won = @ \/ won,
                                   !.lostAll = @ \/ (fired /\ lives1 <= 0)]
           /\ scareRoom' = IF fired /\ ~jumpScare.isActive
                            THEN (IF entered THEN roomIndex ELSE currentRoomIndex)
                            ELSE scareRoom
           /\ fx' = IF entered
                     THEN [roomName |-> roomIndex,
                           doorCreak |-> playsDoorCreak(currentRoomIndex)]
                     ELSE NoFx
           /\ ev' = "frame"
    /\ UNCHANGED <<isTouchDevice, animateStarted>>

\* One frame of animate() while the game is not running: render only.
FrameIdle(d) ==
    /\ animateStarted
    /\ ~frameRuns(gameRunning)
    /\ timersAllow(jumpScare, d)
    /\ jumpScare' = timersAfter(jumpScare, d)
    /\ ev' = "frameIdle"
    /\ UNCHANGED <<isTouchDevice, gameRunning, currentRoomIndex, catActivatedInRoom,
                   lives, animateStarted, cat, player, ui, sess, fires, stalkFrames, scareRoom>>
    /\ fx' = NoFx


\* resetGame(): lives = MAX_LIVES
resetGameLives == MAX_LIVES

\* resetGame(): gameRunning = false
resetGameRunning == FALSE

\* resetGame(), called by the PLAY AGAIN and TRY AGAIN buttons; the pending
\* jump-scare timers are not cleared, the pause menu and the win screen are
\* not hidden.
resetGame(u) ==
    /\ gameRunning' = resetGameRunning
    /\ currentRoomIndex' = NO_ROOM
    /\ catActivatedInRoom' = FALSE
    /\ lives' = resetGameLives
    /\ player' = [player EXCEPT !.position = Pt(0, 200), !.stamina = FULL_STAMINA]
    /\ cat' = catReset(cat)
    /\ ui' = [u EXCEPT !.gameOver = FALSE, !.touchShown = FALSE, !.launcher = TRUE]
    /\ sess' = SessInit
    /\ ev' = "resetGame"
    /\ fires' = 0
    /\ UNCHANGED <<isTouchDevice, animateStarted, jumpScare, stalkFrames, scareRoom>>
    /\ fx' = NoFx

\* WinScreen: the PLAY AGAIN button hides the win screen and calls onPlayAgain
WinPlayAgain ==
    /\ ui.win
    /\ resetGame([ui EXCEPT !.win = FALSE])

\* GameOverScreen: the TRY AGAIN button calls resetGame
GameOverTryAgain ==
    /\ ui.gameOver
    /\ resetGame(ui)

\* launcher: the PLAY button starts the fade-out and the 500 ms timer
ClickPlay ==
    /\ ui.launcher
    /\ ~ui.startPending
    /\ ui' = [ui EXCEPT !.startPending = TRUE]
    /\ ev' = "clickPlay"
    /\ UNCHANGED <<isTouchDevice, gameRunning, currentRoomIndex, catActivatedInRoom,
                   lives, animateStarted, cat, player, jumpScare, sess, fires, stalkFrames, scareRoom>>
    /\ fx' = NoFx

\* the launcher's timer: hides the launcher and calls startGame()
StartGame ==
    /\ ui.startPending
    /\ gameRunning' = TRUE
    /\ currentRoomIndex' = NO_ROOM
    /\ catActivatedInRoom' = FALSE
    /\ lives' = MAX_LIVES
    /\ player' = [player EXCEPT !.mobileMode = IF isTouchDevice THEN TRUE ELSE @,
                                !.isLocked = IF isTouchDevice THEN @ ELSE TRUE]
    /\ ui' = [ui EXCEPT !.launcher = FALSE, !.startPending = FALSE,
                        !.touchShown = isTouchDevice,
                        !.pause = IF isTouchDevice THEN @ ELSE FALSE]
    /\ animateStarted' = TRUE
    /\ ev' = "startGame"
    /\ UNCHANGED <<isTouchDevice, cat, jumpScare, sess, fires, stalkFrames, scareRoom>>
    /\ fx' = NoFx

\* pointerlockchange handler, lock lost: show the pause menu or not
pauseOnLockLost(running, active) == running /\ ~active

\* pointerlockchange, lock lost (the user pressed ESC)
LockLost ==
    /\ ~isTouchDevice
    /\ player.isLocked
    /\ player' = [player EXCEPT !.isLocked = FALSE]
    /\ ui' = [ui EXCEPT !.pause = IF pauseOnLockLost(gameRunning, jumpScare.isActive)
                                  THEN TRUE ELSE @]
    /\ ev' = "lockLost"
    /\ UNCHANGED <<isTouchDevice, gameRunning, currentRoomIndex, catActivatedInRoom,
                   lives, animateStarted, cat, jumpScare, sess, fires, stalkFrames, scareRoom>>
    /\ fx' = NoFx

\* TouchControls: the pause button
TouchPause ==
    /\ isTouchDevice
    /\ ui.touchShown
    /\ gameRunning
    /\ ui' = [ui EXCEPT !.pause = TRUE, !.touchShown = FALSE]
    /\ ev' = "touchPause"
    /\ UNCHANGED <<isTouchDevice, gameRunning, currentRoomIndex, catActivatedInRoom,
                   lives, animateStarted, cat, player, jumpScare, sess, fires, stalkFrames, scareRoom>>
    /\ fx' = NoFx

\* PauseMenu: a click on the overlay calls onResume: on a touch device the
\* menu is hidden and the touch controls shown; on a desktop player.lock() is
\* called and pointerlockchange hides the menu
PauseResume ==
    /\ ui.pause
    /\ ui' = IF isTouchDevice
             THEN [ui EXCEPT !.pause = FALSE, !.touchShown = TRUE]
             ELSE [ui EXCEPT !.pause = FALSE]
    /\ player' = [player EXCEPT !.isLocked = IF isTouchDevice THEN @ ELSE TRUE]
    /\ ev' = "pauseResume"
    /\ UNCHANGED <<isTouchDevice, gameRunning, currentRoomIndex, catActivatedInRoom,
                   lives, animateStarted, cat, jumpScare, sess, fires, stalkFrames, scareRoom>>
    /\ fx' = NoFx

\* JumpScare.trigger: the 600 ms timer replaces the flash by the death screen
MessageTimer ==
    /\ jumpScare.msgTimer # NO_TIMER
    /\ jumpScare' = [jumpScare EXCEPT !.overlay = "message",
                                      !.msgTimer = NO_TIMER,
                                      !.doneTimer = @ - jumpScare.msgTimer]
    /\ ev' = "messageTimer"
    /\ UNCHANGED <<isTouchDevice, gameRunning, currentRoomIndex, catActivatedInRoom,
                   lives, animateStarted, cat, player, ui, sess, fires, stalkFrames, scareRoom>>
    /\ fx' = NoFx

\* The 800 ms / 2500 ms timer: hides the overlay, clears isActive and calls
\* onRespawn; k: the hiding spot Math.random() picks.
DoneTimer ==
    /\ jumpScare.doneTimer # NO_TIMER
    /\ jumpScare.msgTimer = NO_TIMER
    /\ jumpScare' = [jumpScare EXCEPT !.isActive = FALSE, !.overlay = "none",
                                      !.kind = "none", !.doneTimer = NO_TIMER]
    /\ IF respawnIsGameOver(lives)
       THEN \* triggerGameOver()
            /\ gameRunning' = FALSE
            /\ player' = [player EXCEPT !.isLocked = FALSE]
            /\ ui' = uiAfterEnd(ui, "gameOver")
            /\ sess' = [sess EXCEPT !.over = TRUE]
            /\ ev' = "gameOver"
            /\ UNCHANGED cat
       ELSE IF currentRoomIndex = NO_ROOM
       THEN \* rooms[-1] is undefined: room.spawnPoint throws a TypeError
            /\ ev' = "respawnError"
            /\ UNCHANGED <<gameRunning, player, ui, sess, cat>>
       ELSE /\ player' = [player EXCEPT
                            !.position = rooms[currentRoomIndex].spawnPoint,
                            !.stamina = FULL_STAMINA]
            /\ \E k \in 1..Len(rooms[currentRoomIndex].catHidingSpots) :
                 cat' = setupForRoom(cat, rooms[currentRoomIndex].catHidingSpots,
                                     ROOM_AGGRESSION[currentRoomIndex], k)
            /\ ev' = "respawn"
            /\ UNCHANGED <<gameRunning, ui, sess>>
    /\ stalkFrames' = IF respawnIsGameOver(lives) \/ currentRoomIndex = NO_ROOM
                       THEN stalkFrames ELSE 0
    /\ fires' = IF respawnIsGameOver(lives) \/ currentRoomIndex = NO_ROOM
                 THEN fires ELSE 0
    /\ scareRoom' = NO_ROOM
    /\ fx' = NoFx
    /\ UNCHANGED <<isTouchDevice, currentRoomIndex, catActivatedInRoom, lives,
                   animateStarted>>

\* the keys held during a frame: <<moving, sprint>>
Keys == {<<FALSE, FALSE>>, <<TRUE, FALSE>>, <<TRUE, TRUE>>}

Next ==
    \/ \E d \in Deltas : \E keys \in Keys, target \in PlayerPoints \cup {player.position} :
            Frame(d, keys[1], keys[2], target)
    \/ \E d \in Deltas : FrameIdle(d)
    \/ ClickPlay
    \/ StartGame
    \/ LockLost
    \/ TouchPause
    \/ PauseResume
    \/ MessageTimer
    \/ DoneTimer
    \/ WinPlayAgain
    \/ GameOverTryAgain

Spec == Init /\ [][Next]_vars

\* a setTimeout callback that is due runs
FairSpec == Spec /\ WF_vars(MessageTimer) /\ WF_vars(DoneTimer)


\* ------------------------------------------------- the Cat class on its own
\* The public methods of Cat called directly, in any order, on inputs drawn
\* from small sets: what the class does for every caller, not only for main.js.

\* the state of main.js, which the methods of Cat do not touch
orchestrator == <<isTouchDevice, gameRunning, currentRoomIndex, catActivatedInRoom,
                  lives, animateStarted, jumpScare, ui, sess, scareRoom, fx>>

\* frame times passed to update(): one second and the longest frame
UnitDeltas == {10, MaxDelta}

\* the rooms whose hiding spots and aggression are passed to setupForRoom:
\* the first (aggression 1.0) and the last (aggression 2.0)
UnitRooms == {0, LAST_ROOM}

\* where the player is, relative to the cat, when update() is called: on the
\* cat, 0.01 away, inside the pounce distance, and 5, 10 and 13 units away
UnitOffsets ==
    {Pt(0, 0), Pt(1, 0), Pt(0, 150), Pt(300, 400), Pt(0 - 600, 800),
     Pt(0 - 500, 0 - 1200)}

\* setupForRoom(roomIndex, hidingSpots, aggressionMultiplier) with the hiding
\* spots of room i; k: the spot Math.random() picks
SetupForRoomCall(i, k) ==
    /\ cat' = setupForRoom(cat, rooms[i].catHidingSpots, ROOM_AGGRESSION[i], k)
    /\ ev' = "setupForRoom"
    /\ fires' = 0
    /\ stalkFrames' = 0
    /\ UNCHANGED <<player, orchestrator>>

\* setupForRoom with an empty (or missing) hidingSpots: the call returns
SetupForRoomEmptyCall(i) ==
    /\ cat' = setupForRoom(cat, <<>>, ROOM_AGGRESSION[i], 1)
    /\ ev' = "setupForRoomEmpty"
    /\ fires' = 0
    /\ UNCHANGED <<player, stalkFrames, orchestrator>>

\* activate()
ActivateCall ==
    /\ cat' = activate(cat)
    /\ ev' = "activate"
    /\ UNCHANGED <<player, fires, stalkFrames, orchestrator>>

\* update(delta, playerPosition, playerIsSprinting); the player's position
\* is kept when the cat reads it (Stalking); the cat is moved by at
\* most MaxStalkFrames updates from the hiding spot it was last placed on
UpdateCall(d, off, sprinting) ==
    /\ cat.state = STALKING => stalkFrames < MaxStalkFrames
    /\ LET playerPosition == Pt(cat.position.x + off.x, cat.position.z + off.z)
       IN  /\ cat' = catUpdate(cat, d, playerPosition, sprinting)
           /\ player' = IF cat.state = STALKING
                         THEN [player EXCEPT !.position = playerPosition]
                         ELSE player
    /\ ev' = IF sprinting THEN "updateSprinting" ELSE "update"
    /\ fires' = IF cat.state = STALKING /\ cat'.state = POUNCING THEN 0
                 ELSE IF pounceFires(cat) THEN fires + 1 ELSE fires
    /\ stalkFrames' = IF cat.state = STALKING THEN stalkFrames + 1 ELSE stalkFrames
    /\ UNCHANGED orchestrator

\* reset()
ResetCall ==
    /\ cat' = catReset(cat)
    /\ ev' = "reset"
    /\ fires' = 0
    /\ UNCHANGED <<player, stalkFrames, orchestrator>>

CatNext ==
    \/ \E i \in UnitRooms : \E k \in 1..Len(rooms[i].catHidingSpots) :
            SetupForRoomCall(i, k)
    \/ \E i \in UnitRooms : SetupForRoomEmptyCall(i)
    \/ ActivateCall
    \/ \E d \in UnitDeltas, off \in UnitOffsets, sprinting \in BOOLEAN :
            UpdateCall(d, off, sprinting)
    \/ ResetCall

CatSpec == Init /\ [][CatNext]_vars


\* ------------------------------------------------------------ properties
\* The steps of animate() and of the callbacks, read off the history.

\* animate() ran the game logic and reached cat.update (no victory)
CatUpdated == ev' = "frame" /\ gameRunning'

\* animate() called setupForRoom (a room was entered)
RoomSetup == ev' = "frame" /\ currentRoomIndex' # currentRoomIndex

\* setupForRoom or reset was called on the cat
SetupOrReset == RoomSetup \/ ev' = "respawn" \/ ev' = "resetGame"

\* cat.update was called on a cat that was already Pouncing
UpdateWhilePouncing == CatUpdated /\ ~RoomSetup /\ cat.state = POUNCING

\* cat.update was called on a cat that was already Stalking
UpdateWhileStalking == CatUpdated /\ ~RoomSetup /\ cat.state = STALKING

\* onJumpScare was called
ScareEvent == ev' = "frame" /\ fires' = fires + 1

\* C1 (as stated): onJumpScare fires exactly once per Stalking -> Pouncing
\* transition, not zero times and never more than once, until setupForRoom
\* or reset is called: when either is called on a Pouncing cat the callback
\* has fired once.
C1_ExactlyOnceUntilSetup ==
    [][ /\ fires' <= 1
        /\ (SetupOrReset /\ cat.state = POUNCING) => fires = 1 ]_vars

\* C1 (amended): onJumpScare fires at most once per Stalking -> Pouncing
\* transition, and exactly once as soon as update has been called on the
\* Pouncing cat; when setupForRoom or reset comes before any such update it
\* has fired zero times.
C1_OncePerPounce ==
    [][ /\ fires' <= 1
        /\ UpdateWhilePouncing => (fires' = 1 /\ cat'.pounceFired)
        /\ (SetupOrReset /\ cat.state = POUNCING)
              => fires = (IF cat.pounceFired THEN 1 ELSE 0) ]_vars

\* the callback has fired once and a later frame has updated the Pouncing cat
C1_Witness ==
    /\ ev = "frame" /\ gameRunning
    /\ cat.state = POUNCING /\ cat.pounceFired /\ fires = 1
    /\ jumpScare.kind = "hit" /\ jumpScare.doneTimer # NO_TIMER
    /\ jumpScare.doneTimer < HIT_DELAY

\* C2 (as stated): a Stalking cat is Pouncing by the time the accumulated
\* deltaTime since activation reaches 5.0 seconds.
C2_PouncingAtFiveSeconds ==
    cat.state = STALKING => cat.stalkTimer < STALK_DURATION

\* C2 (amended): the stalk timer strictly increases on every update of a
\* Stalking cat, and the cat is Pouncing as soon as an update leaves it above
\* 5.0 seconds: a Stalking cat's timer is at most 5.0, and 5.0 itself is
\* still Stalking when the player is 2.0 or more away.
C2_PouncingAfterFiveSeconds ==
    [][ /\ cat'.state = STALKING => cat'.stalkTimer <= STALK_DURATION
        /\ UpdateWhileStalking => cat'.stalkTimer > cat.stalkTimer
        /\ (UpdateWhileStalking /\ cat'.stalkTimer > STALK_DURATION)
              => cat'.state = POUNCING ]_vars

\* a cat that pounced with its timer above 5.0 seconds, the player 2.0 or
\* more away
C2_Witness ==
    /\ cat.state = POUNCING
    /\ cat.stalkTimer > STALK_DURATION
    /\ Dist2(player.position, cat.position) >= POUNCE_DISTANCE * POUNCE_DISTANCE

\* C3 (as stated): game-over is raised if and only if lives reaches 0:
\* triggerGameOver is never called with lives above 0, and a session in which
\* lives reached 0 does not end (resetGame) without triggerGameOver having
\* been called.
C3_GameOverIffNoLives ==
    [][ /\ ev' = "gameOver" => lives <= 0
        /\ (ev' = "resetGame" /\ sess.lostAll) => sess.over ]_vars

C5_PauseFreezesCat ==
    [][ (ui.pause /\ ev' \in {"frame", "frameIdle"})
          => /\ cat'.state = cat.state
             /\ cat'.position = cat.position
             /\ cat'.stalkTimer = cat.stalkTimer ]_vars

\* C6: after victory no frame runs the game logic until resetGame: every
\* frame is a render-only frame that leaves player, cat, room, armed flag
\* and lives unchanged.
C6_NoLogicAfterVictory ==
    [][ sess.won
          => /\ ev' # "frame"
             /\ ev' = "frameIdle"
                  => UNCHANGED <<player, cat, currentRoomIndex, catActivatedInRoom,
                                 lives, gameRunning>> ]_vars

\* a frame was rendered after victory
C6_Witness == sess.won /\ ui.win /\ ev = "frameIdle"

\* inclusive x/z containment in the bedroom's exitZone
InExitZone(position) == isInsideTriggerZone(position, rooms[LAST_ROOM].exitZone)

\* C7 (as stated): on every frame run while the game is running that leaves
\* the player inside the exitZone, victory is raised and the cat is not
\* activated on that frame.
C7_VictoryInExitZone ==
    [][ (ev' = "frame" /\ InExitZone(player'.position))
          => /\ ~gameRunning' /\ ui'.win
             /\ catActivatedInRoom' => catActivatedInRoom ]_vars

\* the 800 ms / 2500 ms timer has run onRespawn
SequenceCompleted == ev' \in {"respawn", "gameOver", "respawnError"}

\* C8 (as stated): a jump-scare event that leaves lives above 0 runs the
\* short hit sequence without the death message, and the completion of a hit
\* sequence performs the respawn and does not raise game-over.
C8_HitSequenceRespawns ==
    [][ /\ (ScareEvent /\ lives' > 0)
              => /\ jumpScare'.isActive /\ jumpScare'.kind = "hit"
                 /\ jumpScare'.msgTimer = NO_TIMER
        /\ (SequenceCompleted /\ jumpScare.kind = "hit")
              => /\ ev' = "respawn"
                 /\ cat'.state = LURKING
                 /\ player'.position = rooms[currentRoomIndex].spawnPoint ]_vars

\* C9 (as stated): a jump-scare event that brings lives to 0 runs the full
\* sequence, whose completion raises game-over and neither relocates the
\* player nor sets the cat up; game-over is never reached through the hit
\* sequence.
C9_FullSequenceGameOver ==
    [][ /\ (ScareEvent /\ lives' = 0)
              => /\ jumpScare'.isActive /\ jumpScare'.kind = "full"
                 /\ jumpScare'.msgTimer # NO_TIMER
        /\ (SequenceCompleted /\ jumpScare.kind = "full")
              => /\ ev' = "gameOver"
                 /\ player'.position = player.position
                 /\ cat' = cat
        /\ ev' = "gameOver" => jumpScare.kind = "full" ]_vars

\* C10 (as stated): when onRespawn runs with lives above 0, afterwards the
\* player is on the current room's spawnPoint with full stamina and the cat
\* is Lurking, hidden, with timer 0, the fired flag clear and the room's
\* aggression factor.
C10_RespawnPostcondition ==
    [][ (SequenceCompleted /\ lives > 0)
          => /\ currentRoomIndex # NO_ROOM
             /\ player'.position = rooms[currentRoomIndex].spawnPoint
             /\ player'.stamina = FULL_STAMINA
             /\ cat'.state = LURKING /\ ~cat'.visible
             /\ cat'.stalkTimer = 0 /\ ~cat'.pounceFired
             /\ cat'.aggressionMultiplier = ROOM_AGGRESSION[currentRoomIndex] ]_vars

\* C11 (as stated): the respawn uses the spawnPoint of the room the player
\* occupied when the jump-scare event fired, whatever the player does before
\* the timed sequence ends.
C11_RespawnInScareRoom ==
    [][ ev' = "respawn"
          => /\ currentRoomIndex = scareRoom
             /\ player'.position = rooms[scareRoom].spawnPoint ]_vars

\* a jump-scare event while a sequence is running: trigger() or triggerHit()
\* is called with isActive set
Retrigger == ScareEvent /\ jumpScare.isActive

\* C12: trigger() / triggerHit() called while isActive change nothing: no
\* timer is scheduled or restarted, overlay and shake are not set again.  At
\* most one sequence is in flight: its completion timer is pending exactly
\* while isActive, and the completion callback runs once per started
\* sequence: it runs only on an active sequence, it alone clears isActive,
\* and every active sequence gets to it.
C12_NoRetrigger ==
    /\ [][ /\ Retrigger
                => /\ jumpScare'.isActive
                   /\ jumpScare'.kind = jumpScare.kind
                   /\ jumpScare'.overlay = jumpScare.overlay
                   /\ jumpScare'.doneTimer # NO_TIMER
                   /\ jumpScare'.doneTimer <= jumpScare.doneTimer
                   /\ jumpScare'.msgTimer <= jumpScare.msgTimer
                   /\ jumpScare'.shake <= jumpScare.shake
           /\ jumpScare'.isActive <=> jumpScare'.doneTimer # NO_TIMER
           /\ jumpScare'.msgTimer # NO_TIMER
                => jumpScare'.msgTimer < jumpScare'.doneTimer
           /\ SequenceCompleted
                => jumpScare.isActive /\ ~jumpScare'.isActive
           /\ (jumpScare.isActive /\ ~jumpScare'.isActive) => SequenceCompleted
       ]_vars
    /\ (jumpScare.isActive ~> ~jumpScare.isActive)

\* onJumpScare has run twice within one hit sequence: the second call found
\* isActive set and the sequence is still the first one
C12_Witness ==
    /\ ev = "frame" /\ jumpScare.isActive /\ jumpScare.kind = "hit"
    /\ lives = 0 /\ fires = 1

\* C13: activate() changes the cat only when it is Lurking: it becomes
\* Stalking and visible with stalk timer 0; called on a Stalking or Pouncing
\* cat it leaves state, stalk timer, fired flag and visibility (the whole
\* cat) unchanged, so a second call in a row changes nothing.
C13_ActivateIdempotent ==
    [][ /\ ev' = "activate"
             => IF cat.state = LURKING
                THEN /\ cat'.state = STALKING /\ cat'.stalkTimer = 0
                     /\ cat'.visible /\ cat'.modelVisible /\ ~cat'.pounceFired
                     /\ cat'.position = cat.position
                     /\ cat'.aggressionMultiplier = cat.aggressionMultiplier
                ELSE cat' = cat
        /\ activate(activate(cat)) = activate(cat) ]_vars

\* activate() was called on a Stalking cat whose timer was running, and the
\* timer is still running
C13_Witness ==
    ev = "activate" /\ cat.state = STALKING /\ cat.stalkTimer > 0

\* the rooms whose z-range contains z
RoomsContaining(z) ==
    {i \in 0..LAST_ROOM : z >= ROOM_Z_BOUNDS[i].minZ /\ z <= ROOM_Z_BOUNDS[i].maxZ}

\* every room boundary, half a unit to either side of it, and the player's z
SampleZ ==
    {player.position.z}
    \cup {ROOM_Z_BOUNDS[i].minZ + e : i \in 0..LAST_ROOM, e \in {0 - 50, 0, 50}}
    \cup {ROOM_Z_BOUNDS[i].maxZ + e : i \in 0..LAST_ROOM, e \in {0 - 50, 0, 50}}

\* C14 (as stated): getRoomIndexForPosition returns an index whose z-range
\* contains z, or -1 exactly when no range contains it, and at most one
\* room's range contains any given z.
C14_UniqueRoom ==
    \A z \in SampleZ :
        LET r == getRoomIndexForPosition(Pt(0, z))
        IN  /\ r = NO_ROOM <=> RoomsContaining(z) = {}
            /\ r # NO_ROOM => r \in RoomsContaining(z)
            /\ Cardinality(RoomsContaining(z)) <= 1

\* C14 (amended): getRoomIndexForPosition returns the lowest index whose
\* z-range contains z, or -1 exactly when no range contains it; the ranges are
\* closed and adjacent rooms share their boundary, so a z on a shared boundary
\* is in two ranges and is classified as the room nearer the kitchen; no z is
\* in more than two.
C14_LowestRoom ==
    \A z \in SampleZ :
        LET r == getRoomIndexForPosition(Pt(0, z))
        IN  /\ r = NO_ROOM <=> RoomsContaining(z) = {}
            /\ r # NO_ROOM => (r \in RoomsContaining(z)
                                /\ \A i \in RoomsContaining(z) : r <= i)
            /\ Cardinality(RoomsContaining(z)) <= 2
            /\ Cardinality(RoomsContaining(z)) = 2
                 => \E i \in 0..(LAST_ROOM - 1) :
                        /\ RoomsContaining(z) = {i, i + 1}
                        /\ z = ROOM_Z_BOUNDS[i].minZ
                        /\ z = ROOM_Z_BOUNDS[i + 1].maxZ

\* a frame has classified a player standing on the boundary between the
\* living room and the bedroom as being in the living room
C14_Witness ==
    /\ ev = "frame" /\ gameRunning
    /\ player.position.z = ROOM_Z_BOUNDS[LAST_ROOM].maxZ
    /\ currentRoomIndex = LAST_ROOM - 1

\* C15 (as stated): setupForRoom called with an empty (or missing) set of
\* hiding spots is rejected with an error: the call does not return normally,
\* and it leaves the cat as it was instead of re-initialising it on its old
\* position.
C15_EmptySpotsRejected ==
    [][ /\ ev' # "setupForRoomEmpty"
        /\ ev' = "setupForRoomEmpty" => cat' = cat ]_vars

\* update() was called on a Stalking cat
StalkingUpdate == ev' \in {"update", "updateSprinting"} /\ cat.state = STALKING

\* baseSpeed * aggressionFactor * sprintFactor * d in hundredths of a unit:
\* baseSpeed 2, the factors in tenths, d in tenths of a second
ClaimedAdvance(aggression, sprinting, d) ==
    (2 * aggression * (IF sprinting THEN 15 ELSE 10) * d) \div 10

\* the step from `from` to `to` has length mv (to within the grid) and points
\* from `from` to `target`
AdvancesToward(from, to, target, mv) ==
    LET dx == target.x - from.x
        dz == target.z - from.z
        sx == to.x - from.x
        sz == to.z - from.z
    IN  /\ 2 * Abs(sx * dz - sz * dx) <= Abs(dx) + Abs(dz)
        /\ sx * dx + sz * dz >= 0
        /\ sx * sx + sz * sz >= (mv - 1) * (mv - 1)
        /\ sx * sx + sz * sz <= (mv + 1) * (mv + 1)

\* C16 (as stated): in one Stalking update with deltaTime d the cat advances
\* along the unit vector toward the player by
\* baseSpeed * aggressionFactor * sprintFactor * d.
C16_AdvanceAtClaimedSpeed ==
    [][ StalkingUpdate
          => AdvancesToward(cat.position, cat'.position, player'.position,
                 ClaimedAdvance(cat.aggressionMultiplier, ev' = "updateSprinting",
                                cat'.stalkTimer - cat.stalkTimer)) ]_vars

\* C16 (amended): when the player is more than 0.01 away the cat advances
\* along the unit vector toward the player by
\* baseSpeed * aggressionFactor * sprintFactor * d (with aggression 2.0 and
\* d = 1 s: 4.0 units, with sprint 6.0 units); when the player is within 0.01
\* the direction is not normalised and the cat advances by that fraction of
\* the distance to the player, at most 0.01 times as far, and not at all when
\* it is on the player.
C16_AdvanceWhenApart ==
    [][ StalkingUpdate
          => LET mv == ClaimedAdvance(cat.aggressionMultiplier, ev' = "updateSprinting",
                                      cat'.stalkTimer - cat.stalkTimer)
                 sx == cat'.position.x - cat.position.x
                 sz == cat'.position.z - cat.position.z
             IN  /\ Dist2(player'.position, cat.position) > NORMALIZE_EPS * NORMALIZE_EPS
                      => AdvancesToward(cat.position, cat'.position, player'.position, mv)
                 /\ ( /\ Dist2(player'.position, cat.position)
                            > NORMALIZE_EPS * NORMALIZE_EPS
                      /\ cat.aggressionMultiplier = 20
                      /\ cat'.stalkTimer - cat.stalkTimer = 10 )
                      => mv = (IF ev' = "updateSprinting" THEN 600 ELSE 400)
                 /\ Dist2(player'.position, cat.position) <= NORMALIZE_EPS * NORMALIZE_EPS
                      => /\ 100 * 100 * (sx * sx + sz * sz) <= (mv + 50) * (mv + 50)
                         /\ player'.position = cat.position => (sx = 0 /\ sz = 0) ]_vars

\* the cat of the last room (aggression 2.0) has stalked a sprinting player
\* for one second and is 6.0 units from its hiding spot
C16_Witness ==
    /\ ev = "updateSprinting" /\ cat.stalkTimer = 10
    /\ cat.aggressionMultiplier = ROOM_AGGRESSION[LAST_ROOM]
    /\ \E k \in 1..Len(rooms[LAST_ROOM].catHidingSpots) :
           Dist2(cat.position, rooms[LAST_ROOM].catHidingSpots[k]) = 600 * 600

\* C17 (as stated): while the game is running (once started it is never
\* stopped by victory or game-over) and frames keep being executed, a
\* Stalking cat always eventually reaches Pouncing, however the player moves
\* or sprints.
C17_StalkingLeadsToPouncing ==
    ([](animateStarted => gameRunning) /\ []<><<ev' = "frame">>_vars)
        => ((cat.state = STALKING) ~> (cat.state = POUNCING))

\* C17 (amended): while the game is running and frames keep being executed,
\* a Stalking cat always eventually stops Stalking: it reaches Pouncing, or
\* it is put back to Lurking by setupForRoom (the player enters another room,
\* or a respawn) or by reset.
C17_StalkingEnds ==
    /\ ([]<><<ev' = "frame">>_vars)
          => ((cat.state = STALKING) ~> (cat.state # STALKING))
    /\ [][ (cat.state = STALKING /\ cat'.state = LURKING) => SetupOrReset ]_vars

\* a frame has ended a stalk: the cat has just pounced on a player who came
\* within the pounce distance before the five seconds were over
C17_Witness ==
    /\ ev = "frame" /\ gameRunning
    /\ cat.state = POUNCING /\ ~cat.pounceFired
    /\ cat.stalkTimer > 0 /\ cat.stalkTimer <= STALK_DURATION

\* C18 (as stated): while a jump-scare sequence is active no frame performs
\* the normal updates: no room transition, no cat activation, no cat update
\* (the room index, the armed flag and the cat are left as they are); they
\* resume only after the completion callback has run.
C18_SequenceGatesUpdates ==
    [][ (jumpScare.isActive /\ ev' = "frame")
          => /\ currentRoomIndex' = currentRoomIndex
             /\ catActivatedInRoom' = catActivatedInRoom
             /\ cat' = cat
             /\ lives' = lives ]_vars

SetUpIn(c, i) ==
    /\ c.state = LURKING /\ ~c.visible /\ ~c.modelVisible
    /\ c.stalkTimer = 0 /\ ~c.pounceFired
    /\ c.aggressionMultiplier = ROOM_AGGRESSION[i]
    /\ \E k \in 1..Len(rooms[i].catHidingSpots) : c.position = rooms[i].catHidingSpots[k]

\* C20: a frame that classifies the player into a valid room other than
\* currentRoomIndex stores the new index, clears the armed flag and sets the
\* cat up for the new room, whatever state the cat was in: the frame ends
\* with the cat set up there (armed flag clear), or, when the trigger check
\* of the same frame activated it (or victory was raised), with what that
\* makes of the cat set up there: activated with timer 0 and updated once, so
\* its timer is the frame's deltaTime and the fired flag is clear.  No frame
\* changes currentRoomIndex in any other way.
C20_RoomTransition ==
    [][ /\ ( /\ ev' = "frame"
             /\ getRoomIndexForPosition(player'.position) # NO_ROOM
             /\ getRoomIndexForPosition(player'.position) # currentRoomIndex )
              => /\ currentRoomIndex' = getRoomIndexForPosition(player'.position)
                 /\ cat'.aggressionMultiplier = ROOM_AGGRESSION[currentRoomIndex']
                 /\ ~cat'.pounceFired
                 /\ lives' = lives
                 /\ IF catActivatedInRoom' /\ gameRunning'
                    THEN /\ isInsideTriggerZone(player'.position,
                                                rooms[currentRoomIndex'].triggerZone)
                         /\ cat'.state \in {STALKING, POUNCING}
                         /\ cat'.stalkTimer \in Deltas
                         /\ cat'.visible
                    ELSE /\ SetUpIn(cat', currentRoomIndex')
                         /\ ~catActivatedInRoom'
        /\ (ev' = "frame" /\ currentRoomIndex' # currentRoomIndex)
              => currentRoomIndex' = getRoomIndexForPosition(player'.position) ]_vars

\* during a hit sequence (the cat had pounced and fired) a frame has taken
\* the player into the living room: the cat is set up there
C20_Witness ==
    /\ ev = "frame" /\ jumpScare.kind = "hit" /\ fires = 0
    /\ currentRoomIndex = 2 /\ scareRoom = LAST_ROOM
    /\ SetUpIn(cat, 2) /\ ~catActivatedInRoom

\* the first classification of a session: a frame took currentRoomIndex from
\* -1 to a room
FirstClassification == RoomSetup /\ currentRoomIndex = NO_ROOM

\* a later change of room
LaterTransition == RoomSetup /\ currentRoomIndex # NO_ROOM

\* C21 (as stated): the first classification of a session triggers neither
\* the room-name display nor the door sound; every later change of room
\* triggers both.
C21_FirstClassificationSilent ==
    [][ /\ FirstClassification => fx' = NoFx
        /\ LaterTransition
              => (fx'.doorCreak /\ fx'.roomName = currentRoomIndex') ]_vars

\* C21 (amended): the first classification of a session does not play the
\* door sound but does show the room's name; every later change of room does
\* both; a frame that changes no room does neither, and no other handler
\* does either.
C21_FirstClassificationShowsName ==
    [][ /\ FirstClassification
              => (~fx'.doorCreak /\ fx'.roomName = currentRoomIndex')
        /\ LaterTransition
              => (fx'.doorCreak /\ fx'.roomName = currentRoomIndex')
        /\ ~RoomSetup => fx' = NoFx ]_vars

\* the first frame of a session has shown the kitchen's name without the
\* door sound
C21_Witness ==
    /\ ev = "frame" /\ currentRoomIndex = 0
    /\ fx = [roomName |-> 0, doorCreak |-> FALSE]

\* ------------------------------------------------------------------- C22
\* a frame of the running game whose player position lies in no room
OutsideFrame == ev' = "frame" /\ getRoomIndexForPosition(player'.position) = NO_ROOM

\* a frame of the running game whose player position lies in the stored room
SameRoomFrame ==
    ev' = "frame" /\ getRoomIndexForPosition(player'.position) = currentRoomIndex

\* C22: a frame whose position classifies as no room (-1) changes neither the
\* stored room index nor the armed flag, calls neither setupForRoom nor
\* activate and notifies nobody, but still updates the cat: a Lurking cat is
\* left as it is, a Stalking cat has its timer increased by the frame's delta
\* and stays Stalking or becomes Pouncing, a Pouncing cat does not move.  A
\* frame whose position classifies as the stored room is no transition
\* either: index kept, no setupForRoom, nobody notified, the cat updated.
C22_NoRoomFrame ==
    [][ /\ OutsideFrame =>
            /\ currentRoomIndex' = currentRoomIndex
            /\ catActivatedInRoom' = catActivatedInRoom
            /\ fx' = NoFx
            /\ cat.state = LURKING => cat' = cat
            /\ cat.state = STALKING =>
                  /\ cat'.stalkTimer \in {cat.stalkTimer + d : d \in Deltas}
                  /\ cat'.state \in {STALKING, POUNCING}
                  /\ cat'.aggressionMultiplier = cat.aggressionMultiplier
            /\ cat.state = POUNCING =>
                  /\ cat'.state = POUNCING
                  /\ cat'.position = cat.position
                  /\ cat'.pounceFired
        /\ SameRoomFrame =>
            /\ currentRoomIndex' = currentRoomIndex
            /\ fx' = NoFx
            /\ catActivatedInRoom => catActivatedInRoom'
            /\ cat.state # LURKING => cat'.state # LURKING
            /\ (cat.state = STALKING /\ gameRunning') =>
                  cat'.stalkTimer \in {cat.stalkTimer + d : d \in Deltas}
      ]_vars

\* a frame has just updated a Stalking cat while the player stood outside
\* every room: the room left is still the stored room and the flag still armed
C22_Witness ==
    /\ ev = "frame"
    /\ gameRunning
    /\ getRoomIndexForPosition(player.position) = NO_ROOM
    /\ currentRoomIndex \in 0..LAST_ROOM
    /\ catActivatedInRoom
    /\ cat.state = STALKING
    /\ cat.stalkTimer = 2 * MaxDelta

\* ------------------------------------------------------------------- C23
\* triggerHit() or trigger() passed its isActive guard in this step
SequenceStarted == ~jumpScare.isActive /\ jumpScare'.isActive

\* C23: the sequencer's phases come in a fixed order.  A trigger that starts a
\* sequence leaves the flash on the overlay with the completion pending (and,
\* in the full sequence, the death message pending); the death message comes
\* only from the flash of a full sequence, and a hit sequence never shows it;
\* the sequencer returns to idle only in the step that runs the completion
\* callback, which runs with isActive already false, the overlay hidden, and
\* only after the flash (hit) or the death message (full) was on the overlay.
C23_PhaseOrder ==
    [][ /\ SequenceStarted =>
            /\ ev' = "frame"
            /\ jumpScare'.overlay = "flash"
            /\ jumpScare'.kind \in {"hit", "full"}
            /\ jumpScare'.doneTimer # NO_TIMER
            /\ (jumpScare'.kind = "full") <=> (jumpScare'.msgTimer # NO_TIMER)
        /\ (jumpScare'.overlay = "message" /\ jumpScare.overlay # "message") =>
            /\ ev' = "messageTimer"
            /\ jumpScare.isActive /\ jumpScare'.isActive
            /\ jumpScare.overlay = "flash"
            /\ jumpScare.kind = "full"
            /\ jumpScare'.doneTimer # NO_TIMER
        /\ jumpScare'.kind = "hit" => jumpScare'.overlay = "flash"
        /\ (jumpScare.isActive /\ ~jumpScare'.isActive) <=> SequenceCompleted
        /\ SequenceCompleted =>
            /\ jumpScare.msgTimer = NO_TIMER
            /\ jumpScare.kind = "full" => jumpScare.overlay = "message"
            /\ jumpScare.kind = "hit" => jumpScare.overlay = "flash"
            /\ jumpScare'.overlay = "none"
            /\ jumpScare'.doneTimer = NO_TIMER
        /\ (jumpScare.isActive /\ jumpScare'.isActive) =>
            /\ jumpScare'.kind = jumpScare.kind
            /\ jumpScare.overlay = "message" => jumpScare'.overlay = "message"
      ]_vars

\* the 600 ms callback of a full sequence has just replaced the flash by the
\* death message; the completion is still pending
C23_Witness ==
    /\ ev = "messageTimer"
    /\ jumpScare.isActive
    /\ jumpScare.kind = "full"
    /\ jumpScare.overlay = "message"
    /\ jumpScare.msgTimer = NO_TIMER
    /\ jumpScare.doneTimer # NO_TIMER
    /\ lives = 0

\* ------------------------------------------------------------------- C24
\* C24: an update of a Stalking cat adds the frame's delta to the stalk timer
\* and changes the cat to Pouncing if and only if the distance to the player
\* (measured before the cat's move of this frame) is below 2.0 or the timer,
\* delta included, exceeds 5.0 seconds; otherwise the cat stays Stalking, and
\* it never becomes Lurking.  An update of a Pouncing cat leaves the cat
\* Pouncing where it is, with its timer as it was.
C24_StalkingUpdate ==
    [][ /\ UpdateWhileStalking =>
            /\ cat'.stalkTimer \in {cat.stalkTimer + d : d \in Deltas}
            /\ cat'.state \in {STALKING, POUNCING}
            /\ (cat'.state = POUNCING) <=>
                  \/ Dist2(player'.position, cat.position)
                        < POUNCE_DISTANCE * POUNCE_DISTANCE
                  \/ cat'.stalkTimer > STALK_DURATION
        /\ UpdateWhilePouncing =>
            /\ cat'.state = POUNCING
            /\ cat'.position = cat.position
            /\ cat'.stalkTimer = cat.stalkTimer
      ]_vars

\* an update has brought the stalk timer to exactly 5.0 seconds, two units
\* or more from the player: the cat is still Stalking
C24_Witness ==
    /\ ev = "frame"
    /\ gameRunning
    /\ getRoomIndexForPosition(player.position) = currentRoomIndex
    /\ cat.state = STALKING
    /\ cat.stalkTimer = STALK_DURATION
    /\ Dist2(player.position, cat.position) >= POUNCE_DISTANCE * POUNCE_DISTANCE

\* ------------------------------------------------------------------- C25
\* C25: lives always stays within 0..MAX_LIVES.
C25_LivesInRange == lives \in 0..MAX_LIVES

\* ------------------------------------------------------------------- C26
\* cat.onJumpScare ran in this step: lives--
LifeLost == ev' = "frame" /\ lives' = lives - 1

\* C26: every jump-scare event that decrements lives also starts a sequencer
\* run: no life is lost while the sequencer is active.
C26_LifeLostStartsSequence ==
    [][LifeLost => SequenceStarted]_vars

\* ------------------------------------------------------------------- C27
\* C27: within one session at most one terminal outcome is raised: triggerWin
\* and triggerGameOver never both fire between startGame and the next
\* resetGame.
C27_OneOutcome == ~(sess.won /\ sess.over)

\* ------------------------------------------------------------------- C28
\* C28: whenever the sequencer's completion callback (onRespawn) runs, the
\* game is running and currentRoomIndex is a room index (0..3).
C28_RespawnHasRoom ==
    [][SequenceCompleted => (gameRunning /\ currentRoomIndex \in 0..LAST_ROOM)]_vars

\* ------------------------------------------------------------------- C29
\* C29: while the game is running, the armed flag (catActivatedInRoom) is
\* true only when the cat is Stalking or Pouncing.
C29_ArmedMeansActive ==
    (gameRunning /\ catActivatedInRoom) => cat.state \in {STALKING, POUNCING}

\* ------------------------------------------------------------------- C30
\* the hiding spots of all rooms
HidingSpots ==
    UNION {{rooms[i].catHidingSpots[k] : k \in 1..Len(rooms[i].catHidingSpots)} :
             i \in 0..LAST_ROOM}

\* C30: after any sequence of setupForRoom, activate, update and reset, the
\* cat's visible flag is true exactly when the cat is Stalking or Pouncing
\* (false exactly when it is Lurking), the fired flag is true only in
\* Pouncing, and the stalk timer is 0 whenever the cat is Lurking.
C30_CatFlags ==
    /\ cat.state \in {LURKING, STALKING, POUNCING}
    /\ cat.visible <=> cat.state \in {STALKING, POUNCING}
    /\ cat.pounceFired => cat.state = POUNCING
    /\ cat.state = LURKING => cat.stalkTimer = 0

\* reset() has just put back to Lurking a cat that an update had moved off
\* its hiding spot: flag down, timer 0, fired flag cleared
C30_Witness ==
    /\ ev = "reset"
    /\ cat.state = LURKING
    /\ ~cat.visible
    /\ ~cat.pounceFired
    /\ cat.stalkTimer = 0
    /\ cat.position \notin HidingSpots \cup {CatInit.position}

====
